---- MODULE Spec2Model ----
(***************************************************************************)
(* The expense tracker of src/main.py: four asynchronous tools             *)
(* (add_expense, list_expenses, summarize_expenses, delete_expense) over   *)
(* one SQLite table, each preceded by the lazy ensure_db().  Every tool    *)
(* invocation is a coroutine; the steps below are its await points.  Each  *)
(* invocation opens its own connection, so an uncommitted change is seen   *)
(* by nobody else and is rolled back when the connection closes on an      *)
(* exception.  SQLite admits one writer at a time: a second writer waits   *)
(* for the lock and gives up with "database is locked" when the timeout of *)
(* sqlite3.connect (its default) expires first.                            *)
(* The resource get_categories is a plain function over categories.json.   *)
(***************************************************************************)
EXTENDS Integers, Sequences, FiniteSets, TLC

\* ------------------------------------------------------------------ bounds
\* tool calls in one run; any of them may be in flight at the same time
MaxReqs == 2

\* The calls, numbered in the order in which they are made.
Procs == 1..MaxReqs

\* Dates are strings; a string is the sequence of its characters' codes.  "03" and
\* "1" are both accepted, the service does not check the format.
Dates == {<<0, 3>>, <<1>>}
\* The amounts the calls add: refunds.  The rows an earlier run left hold 5.
Amounts == {-2}
Categories == {"", "A"}

\* ---------------------------------------------------------------- helpers
\* An optional argument: Python's None, or a value.
None == [isNone |-> TRUE, val |-> ""]
Some(v) == [isNone |-> FALSE, val |-> v]

\* `if category:` : None and the empty string are both falsy.
Truthy(opt) == ~opt.isNone /\ opt.val # ""

\* SQLite's BINARY collation on TEXT: memcmp, the shorter string first on a tie.
RECURSIVE LexLeq(_, _)
LexLeq(a, b) ==
    IF a = <<>> THEN TRUE
    ELSE IF b = <<>> THEN FALSE
    ELSE IF Head(a) # Head(b) THEN Head(a) < Head(b)
    ELSE LexLeq(Tail(a), Tail(b))

\* x BETWEEN lo AND hi
Between(x, lo, hi) == LexLeq(lo, x) /\ LexLeq(x, hi)

RECURSIVE SumAmount(_)
SumAmount(rows) ==
    IF rows = {} THEN 0
    ELSE LET r == CHOOSE x \in rows : TRUE
         IN r.amount + SumAmount(rows \ {r})

RECURSIVE Perms(_)
Perms(S) ==
    IF S = {} THEN {<<>>}
    ELSE UNION {{<<x>> \o t : t \in Perms(S \ {x})} : x \in S}

Range(s) == {s[i] : i \in 1..Len(s)}

MaxOf(S) == IF S = {} THEN 0 ELSE CHOOSE m \in S : \A x \in S : x <= m

\* ----------------------------------------------------------------- schema
\* One row of the expenses table.
ExpenseRow(i, d, a, c, s, n) ==
    [id |-> i, date |-> d, amount |-> a, category |-> c, subcategory |-> s, note |-> n]

\* Mutant of CreateTable: CREATE TABLE without IF NOT EXISTS fails on an existing table.
CreateTableUnguarded(exists, rows) ==
    [ok |-> ~exists, exists |-> TRUE, rows |-> IF exists THEN rows ELSE {}]

\* CREATE TABLE IF NOT EXISTS expenses (...): a no-op on an existing table, its
\* rows untouched; never an error because the table is there.
CreateTable(exists, rows) ==
    [ok |-> TRUE, exists |-> TRUE, rows |-> IF exists THEN rows ELSE {}]

\* Mutant of NextRowid: INTEGER PRIMARY KEY without AUTOINCREMENT takes one more
\* than the largest rowid the table holds now.
NextRowidOfTable(rows, seq) == MaxOf({r.id : r \in rows}) + 1

\* id INTEGER PRIMARY KEY AUTOINCREMENT: one more than the largest rowid the table
\* has ever held (sqlite_sequence), not than the largest it holds now.
NextRowid(rows, seq) == MaxOf({seq} \cup {r.id : r \in rows}) + 1

\* ---------------------------------------------------------------- queries
\* WHERE date BETWEEN ? AND ?
InRange(rows, d1, d2) == {r \in rows : Between(r.date, d1, d2)}

\* ORDER BY date DESC: a row of a later date never follows one of an earlier date.
\* SQL leaves the order of rows with equal dates open.
DateDesc(s) == \A i, j \in 1..Len(s) : i < j => LexLeq(s[j].date, s[i].date)

\* The sequences list_expenses' SELECT may return.
QueryRange(rows, d1, d2) == {s \in Perms(InRange(rows, d1, d2)) : DateDesc(s)}

\* Mutant of SummaryMatch: the WHERE clause forgets the end of the range.
SummaryMatchFromStart(rows, d1, d2, category) ==
    {r \in rows : /\ LexLeq(d1, r.date)
                  /\ Truthy(category) => r.category = category.val}

\* The WHERE clause of summarize_expenses: the range, and the category when the
\* argument is truthy.
SummaryMatch(rows, d1, d2, category) ==
    {r \in InRange(rows, d1, d2) : Truthy(category) => r.category = category.val}

\* GROUP BY category with SUM(amount) AS total, COUNT(*) AS count: a scan that
\* adds each row to the accumulator of its category.
RECURSIVE GroupBy(_, _)
GroupBy(rows, acc) ==
    IF rows = {} THEN acc
    ELSE LET r == CHOOSE x \in rows : TRUE
             old == {g \in acc : g.category = r.category}
             new == IF old = {}
                    THEN [category |-> r.category, total |-> r.amount, count |-> 1]
                    ELSE LET g == CHOOSE x \in old : TRUE
                         IN [category |-> g.category, total |-> g.total + r.amount,
                             count |-> g.count + 1]
         IN GroupBy(rows \ {r}, (acc \ old) \cup {new})

\* ORDER BY total DESC; the order of groups with equal totals is open.
TotalDesc(s) == \A i, j \in 1..Len(s) : i < j => s[j].total <= s[i].total

\* The sequences summarize_expenses' SELECT may return.
Aggregate(rows, d1, d2, category) ==
    {s \in Perms(GroupBy(SummaryMatch(rows, d1, d2, category), {})) : TotalDesc(s)}

\* total = sum(row['total'] for row in summary)
RECURSIVE SumTotals(_)
SumTotals(summary) ==
    IF summary = <<>> THEN 0 ELSE Head(summary).total + SumTotals(Tail(summary))

\* ------------------------------------------------------------- exceptions
\* What a failing storage call raises.
IOError == [type |-> "OperationalError", msg |-> <<"disk I/O error">>]
\* What a writer raises when the lock is still held as its timeout expires.
LockedError == [type |-> "OperationalError", msg |-> <<"database is locked">>]
\* What CREATE TABLE raises on an existing table when IF NOT EXISTS is missing.
ExistsError == [type |-> "OperationalError", msg |-> <<"table expenses already exists">>]

\* Mutant of InitError: ensure_db lets the exception through as it is.
InitErrorUnwrapped(e) == e

\* ensure_db: except Exception as e: raise RuntimeError(f"Database initialization failed: {e}")
InitError(e) ==
    [type |-> "RuntimeError", msg |-> <<"Database initialization failed">> \o e.msg]

\* The classes `except Exception` catches.
ExceptionClasses == {"OperationalError", "RuntimeError"}

\* Mutant of ToolExcept: the clause catches the database's errors only.
ToolExceptDatabaseOnly(e) ==
    IF e.type = "OperationalError"
    THEN [status |-> "error", message |-> e.msg]
    ELSE [status |-> "fault", message |-> e.msg]

\* except Exception as e: return {"status": "error", "message": str(e)}
\* An exception the clause does not catch leaves the tool as a fault.
ToolExcept(e) ==
    IF e.type \in ExceptionClasses
    THEN [status |-> "error", message |-> e.msg]
    ELSE [status |-> "fault", message |-> e.msg]

\* -------------------------------------------------------------- envelopes
AddResult(r, rowid) ==
    [status |-> "success", id |-> rowid,
     message |-> <<"Expense added", r.amount, r.category>>]

\* Mutant of ListResult: the count is taken before the last row is fetched.
ListResultCountShort(rows) ==
    [status |-> "success", count |-> IF rows = <<>> THEN 0 ELSE Len(rows) - 1,
     expenses |-> rows]

\* "count": len(expenses), "expenses": expenses
ListResult(rows) ==
    [status |-> "success", count |-> Len(rows), expenses |-> rows]

SummaryResult(r, summary) ==
    [status |-> "success", summary |-> summary, total |-> SumTotals(summary),
     period |-> <<r.start_date, "to", r.end_date>>]

\* Mutant of DeleteResult: the response does not look at cur.rowcount.
DeleteResultUnchecked(r, rowcount) ==
    [status |-> "success", message |-> <<"Expense deleted", r.expense_id>>]

\* if cur.rowcount == 0: not found; else deleted
DeleteResult(r, rowcount) ==
    IF rowcount = 0
    THEN [status |-> "error", message |-> <<"Expense not found", r.expense_id>>]
    ELSE [status |-> "success", message |-> <<"Expense deleted", r.expense_id>>]

\* ------------------------------------------------------------- categories
\* Text is a sequence of tokens: punctuation, white space, string literals.
Punct(c) == [t |-> "punct", v |-> c]
White(w) == [t |-> "ws", v |-> w]
Str(x) == [t |-> "str", v |-> x]

DEFAULT_CATEGORIES ==
    [categories |-> <<"Food & Dining", "Transportation", "Shopping", "Entertainment",
                      "Bills & Utilities", "Healthcare", "Travel", "Education",
                      "Business", "Other">>]

\* The items of a JSON array, one to a line and indented, a comma after all but the
\* last.
RECURSIVE JsonItems(_)
JsonItems(labels) ==
    IF labels = <<>> THEN <<>>
    ELSE <<White("\n    "), Str(Head(labels))>>
         \o (IF Len(labels) > 1 THEN <<Punct(",")>> ELSE <<>>)
         \o JsonItems(Tail(labels))

\* json.dumps(obj, indent=2) of {"categories": [...]}
JsonDumps(obj) ==
    <<Punct("{"), White("\n  "), Str("categories"), Punct(":"), White(" "), Punct("[")>>
    \o JsonItems(obj.categories)
    \o (IF obj.categories = <<>> THEN <<>> ELSE <<White("\n  ")>>)
    \o <<Punct("]"), White("\n"), Punct("}")>>

\* The string literals of a comma-separated list, or failure.
RECURSIVE JsonArrayItems(_, _)
JsonArrayItems(toks, acc) ==
    IF toks = <<>> THEN [ok |-> TRUE, items |-> acc]
    ELSE IF Head(toks).t # "str" THEN [ok |-> FALSE, items |-> <<>>]
    ELSE IF Len(toks) = 1 THEN [ok |-> TRUE, items |-> Append(acc, Head(toks).v)]
    ELSE IF toks[2] # Punct(",") \/ Len(toks) = 2 THEN [ok |-> FALSE, items |-> <<>>]
    ELSE JsonArrayItems(Tail(Tail(toks)), Append(acc, Head(toks).v))

\* json.loads of a text, for the documents {"categories": [string, ...]}: white
\* space between tokens is skipped; anything else is not such a document.
JsonLoads(text) ==
    LET toks == SelectSeq(text, LAMBDA k : k.t # "ws")
        n == Len(toks)
        bad == [ok |-> FALSE, categories |-> <<>>]
    IN IF n < 6 THEN bad
       ELSE IF \/ <<toks[1], toks[2], toks[3], toks[4]>>
                     # <<Punct("{"), Str("categories"), Punct(":"), Punct("[")>>
               \/ <<toks[n - 1], toks[n]>> # <<Punct("]"), Punct("}")>>
            THEN bad
       ELSE LET a == JsonArrayItems(SubSeq(toks, 5, n - 2), <<>>)
            IN [ok |-> a.ok, categories |-> a.items]

\* categories.json next to main.py, as the process may find it: not there; there
\* but open() or read() raises (no permission, not UTF-8); there with a document
\* of its own; there with a text cut off in the middle.
ConfigFiles ==
    { [exists |-> FALSE, readable |-> FALSE, text |-> <<>>],
      [exists |-> TRUE, readable |-> FALSE, text |-> <<>>],
      [exists |-> TRUE, readable |-> TRUE,
       text |-> <<Punct("{"), Str("categories"), Punct(":"), Punct("["), Str("Rent"),
                  Punct("]"), Punct("}")>>],
      [exists |-> TRUE, readable |-> TRUE,
       text |-> <<Punct("{"), Str("categories"), Punct(":"), Punct("["), Str("Rent")>>] }

\* get_categories: outside the cloud, the text of the file if it is there and can be
\* read, returned as it is; an exception of open() or read() is passed over
\* (except Exception: pass).  Otherwise json.dumps(DEFAULT_CATEGORIES, indent=2).
get_categories(cloud, f) ==
    IF ~cloud /\ f.exists /\ f.readable
    THEN f.text
    ELSE JsonDumps(DEFAULT_CATEGORIES)

\* The resource's response: a text, not an envelope.
ResourceResult(text) == [status |-> "resource", text |-> text]

\* --------------------------------------------------------------- requests
Ops == {"add", "list", "summarize", "delete"}

NoReq == [op |-> "none"]
NoResult == [status |-> "none"]
NoCursor == [lastrowid |-> 0, rowcount |-> 0]

\* The arguments of the calls.  subcategory and note are left at their defaults.
AddReqs ==
    {[op |-> "add", date |-> d, amount |-> a, category |-> c, subcategory |-> "",
      note |-> ""] : d \in Dates, a \in Amounts, c \in Categories}
ListReqs ==
    {[op |-> "list", start_date |-> d1, end_date |-> d2] : d1 \in Dates, d2 \in Dates}
SummarizeReqs ==
    {[op |-> "summarize", start_date |-> d1, end_date |-> d2, category |-> c] :
        d1 \in Dates, d2 \in Dates, c \in {None} \cup {Some(x) : x \in Categories}}
\* delete_expense is called with an id the table has held, or with the next one.
DeleteReqs(seq) == {[op |-> "delete", expense_id |-> i] : i \in 1..(seq + 1)}

\* The database file the process finds when it starts: none yet, or a table left by
\* an earlier run (ids 1 to 3 were assigned, 3 was deleted; the two rows left share
\* their date and amount).
InitStores ==
    { [exists |-> FALSE, rows |-> {}, seq |-> 0],
      [exists |-> TRUE,
       rows |-> {ExpenseRow(1, <<1>>, 5, "A", "", ""), ExpenseRow(2, <<1>>, 5, "", "", "")},
       seq |-> 3] }

\* ------------------------------------------------------------------ state
VARIABLES
    db_initialized,    \* the process-wide _db_initialized flag
    tableExists,       \* the expenses table is in the database file
    expenses,          \* the committed rows of the table
    sqlite_sequence,   \* AUTOINCREMENT's record of the largest rowid ever used
    writer,            \* the call whose connection holds the write lock, 0 for none
    pc,                \* each call's position in its coroutine
    op,                \* the tool each call runs
    req,               \* its arguments, from the statement that reads them on
    cur,               \* each call's cursor after its INSERT or DELETE
    last,              \* the response returned last, with the call it answers
    acks,              \* history: the successful add/delete responses returned
    seen,              \* history: acks when the call was made
    everIds,           \* history: the ids the table has ever held
    deletedIds,        \* history: the ids whose rows have been deleted
    reused,            \* history: an insert was committed with an id already used
    initFailed,        \* history: ensure_db has raised
    afterInitFail      \* history: the call was made after ensure_db had raised

vars == <<db_initialized, tableExists, expenses, sqlite_sequence, writer, pc, op,
          req, cur, last, acks, seen, everIds, deletedIds, reused, initFailed,
          afterInitFail>>

store == <<tableExists, expenses, sqlite_sequence>>
hist == <<everIds, deletedIds, reused>>

\* What a statement sees: the committed rows, and which ids are gone for good.
NoSnap == [rows |-> {}, deleted |-> {}]
Snapshot(rows, deleted) == [rows |-> rows, deleted |-> deleted]

\* Before the first response.
NoLast ==
    [call |-> 0, op |-> "none", req |-> NoReq, result |-> NoResult, snap |-> NoSnap,
     seen |-> {}, raisedAt |-> "nowhere", afterInitFail |-> FALSE]

\* Mutant of EnsureDbFlag: the flag is set before the try block.
EnsureDbFlagAlways(flag, raised) == TRUE

\* ensure_db: _db_initialized = True is the last statement of the try block; when
\* a statement before it raises, the flag is left as it is.
EnsureDbFlag(flag, raised) == IF raised THEN flag ELSE TRUE

Init ==
    /\ db_initialized = FALSE
    /\ \E s \in InitStores :
          /\ tableExists = s.exists
          /\ expenses = s.rows
          /\ sqlite_sequence = s.seq
          /\ everIds = 1..s.seq
          /\ deletedIds = (1..s.seq) \ {r.id : r \in s.rows}
    /\ writer = 0
    /\ pc = [p \in Procs |-> "idle"]
    /\ op = [p \in Procs |-> "none"]
    /\ req = [p \in Procs |-> NoReq]
    /\ cur = [p \in Procs |-> NoCursor]
    /\ last = NoLast
    /\ acks = {}
    /\ seen = [p \in Procs |-> {}]
    /\ reused = FALSE
    /\ initFailed = FALSE
    /\ afterInitFail = [p \in Procs |-> FALSE]

\* What a returned response adds to the history of acknowledged mutations.
Ack(o, r, res) ==
    IF res.status # "success" THEN {}
    ELSE IF o = "add" THEN {[op |-> "add", id |-> res.id, date |-> r.date]}
    ELSE IF o = "delete" THEN {[op |-> "delete", id |-> r.expense_id, date |-> <<>>]}
    ELSE {}

\* The tool returns res for the arguments r: the connection closes (async with),
\* which rolls back what it had not committed and frees its lock, and the caller
\* has the response.  rows and at are recorded with it: what the call's statement
\* saw, and where its exception was raised.
Return(p, r, res, rows, at) ==
    /\ last' = [call |-> p, op |-> op[p], req |-> r, result |-> res, snap |-> rows,
                seen |-> seen[p], raisedAt |-> at, afterInitFail |-> afterInitFail[p]]
    /\ acks' = acks \cup Ack(op[p], r, res)
    /\ pc' = [pc EXCEPT ![p] = "returned"]
    /\ op' = [op EXCEPT ![p] = "none"]
    /\ req' = [req EXCEPT ![p] = NoReq]
    /\ cur' = [cur EXCEPT ![p] = NoCursor]
    /\ seen' = [seen EXCEPT ![p] = {}]
    /\ afterInitFail' = [afterInitFail EXCEPT ![p] = FALSE]
    /\ writer' = IF writer = p THEN 0 ELSE writer

\* The tool's except clause: it returns ToolExcept(e).
Raise(p, e) == Return(p, req[p], ToolExcept(e), NoSnap, pc[p])

\* A tool is called: the coroutine runs to its first await, which is past the
\* flag test of ensure_db.
Invoke(p, o) ==
    /\ pc[p] = "idle"
    /\ \A q \in Procs : q < p => pc[q] # "idle"
    /\ op' = [op EXCEPT ![p] = o]
    /\ seen' = [seen EXCEPT ![p] = acks]
    /\ afterInitFail' = [afterInitFail EXCEPT ![p] = initFailed]
    /\ pc' = [pc EXCEPT ![p] = IF db_initialized THEN "execute" ELSE "init_connect"]
    /\ UNCHANGED <<db_initialized, store, writer, req, cur, last, acks, hist,
                   initFailed>>

\* ensure_db: async with aiosqlite.connect(DB_PATH) as db, and outside the cloud
\* PRAGMA journal_mode=WAL.  Either call may fail.  The journal mode decides how
\* SQLite logs a transaction, not what a connection reads or writes: it is not part
\* of the state.
InitConnect(p) ==
    /\ pc[p] = "init_connect"
    /\ \E ok \in BOOLEAN :
          IF ok
          THEN /\ pc' = [pc EXCEPT ![p] = "init_create"]
               /\ UNCHANGED <<db_initialized, op, req, cur, last, acks, seen,
                              afterInitFail, writer, initFailed>>
          ELSE /\ Raise(p, InitError(IOError))
               /\ initFailed' = TRUE
               /\ db_initialized' = EnsureDbFlag(db_initialized, TRUE)
    /\ UNCHANGED <<store, hist>>

\* ensure_db: CREATE TABLE IF NOT EXISTS expenses.  The statement is DDL, which the
\* sqlite3 module runs outside a transaction: it is committed as it executes.
InitCreate(p) ==
    /\ pc[p] = "init_create"
    /\ \E ok \in BOOLEAN :
          LET c == CreateTable(tableExists, expenses)
          IN IF ok /\ c.ok
             THEN /\ tableExists' = c.exists
                  /\ expenses' = c.rows
                  /\ pc' = [pc EXCEPT ![p] = "init_commit"]
                  /\ UNCHANGED <<db_initialized, op, req, cur, last, acks, seen,
                                 afterInitFail, writer, initFailed>>
             ELSE /\ Raise(p, InitError(IF ok THEN ExistsError ELSE IOError))
                  /\ initFailed' = TRUE
                  /\ db_initialized' = EnsureDbFlag(db_initialized, TRUE)
                  /\ UNCHANGED <<tableExists, expenses>>
    /\ UNCHANGED <<sqlite_sequence, hist>>

\* ensure_db: await db.commit() (nothing is pending), the connection closes, and
\* _db_initialized = True; the tool goes on to open its own connection.
InitCommit(p) ==
    /\ pc[p] = "init_commit"
    /\ db_initialized' = EnsureDbFlag(db_initialized, FALSE)
    /\ pc' = [pc EXCEPT ![p] = "execute"]
    /\ UNCHANGED <<store, writer, op, req, cur, last, acks, seen, hist, initFailed,
                   afterInitFail>>

\* What a statement raises if the table is not there.
NoTableError == [type |-> "OperationalError", msg |-> <<"no such table: expenses">>]

\* add_expense: the tool's connection, and INSERT INTO expenses ... VALUES
\* (?, ?, ?, ?, ?).  The sqlite3 module opens a transaction before the INSERT, which
\* takes the write lock; the row and the new sqlite_sequence stay private to the
\* connection until the commit.
ExecInsert(p) ==
    /\ pc[p] = "execute"
    /\ op[p] = "add"
    /\ writer = 0
    /\ \E ok \in BOOLEAN :
          IF ok /\ tableExists
          THEN /\ \E r \in AddReqs : req' = [req EXCEPT ![p] = r]
               /\ writer' = p
               /\ cur' = [cur EXCEPT ![p] =
                            [lastrowid |-> NextRowid(expenses, sqlite_sequence),
                             rowcount |-> 1]]
               /\ pc' = [pc EXCEPT ![p] = "commit"]
               /\ UNCHANGED <<op, last, acks, seen, afterInitFail>>
          ELSE Raise(p, IF ok THEN NoTableError ELSE IOError)
    /\ UNCHANGED <<db_initialized, store, hist, initFailed>>

\* delete_expense: the tool's connection, and DELETE FROM expenses WHERE id = ?, in
\* a transaction that takes the write lock; cur.rowcount is the number of rows the
\* statement removes.
ExecDelete(p) ==
    /\ pc[p] = "execute"
    /\ op[p] = "delete"
    /\ writer = 0
    /\ \E ok \in BOOLEAN :
          IF ok /\ tableExists
          THEN /\ \E r \in DeleteReqs(sqlite_sequence) :
                     /\ req' = [req EXCEPT ![p] = r]
                     /\ cur' = [cur EXCEPT ![p] =
                                  [lastrowid |-> 0,
                                   rowcount |-> Cardinality({x \in expenses :
                                                               x.id = r.expense_id})]]
               /\ writer' = p
               /\ pc' = [pc EXCEPT ![p] = "commit"]
               /\ UNCHANGED <<op, last, acks, seen, afterInitFail>>
          ELSE Raise(p, IF ok THEN NoTableError ELSE IOError)
    /\ UNCHANGED <<db_initialized, store, hist, initFailed>>

\* A writer that finds the lock held waits for it; if the holder has not committed
\* when the connection's timeout expires, its INSERT or DELETE raises.
Busy(p) ==
    /\ pc[p] = "execute"
    /\ op[p] \in {"add", "delete"}
    /\ writer \notin {0, p}
    /\ \E r \in IF op[p] = "add" THEN AddReqs ELSE DeleteReqs(sqlite_sequence) :
          Return(p, r, ToolExcept(LockedError), NoSnap, "execute")
    /\ UNCHANGED <<db_initialized, store, hist, initFailed>>

\* Mutant of InsertCommitted: the commit is missing and the close rolls back.
InsertRolledBack(rows, row) == rows

\* The table after the commit of an INSERT.
InsertCommitted(rows, row) == rows \cup {row}

\* Mutant of DeleteCommitted: the statement is DELETE ... WHERE id <= ?.
DeleteCommittedUpTo(rows, id) == {r \in rows : r.id > id}

\* The table after the commit of DELETE ... WHERE id = ?.
DeleteCommitted(rows, id) == {r \in rows : r.id # id}

\* add_expense: await db.commit(), then the response with cur.lastrowid.  A failing
\* commit leaves through the except clause and the insert is rolled back.
CommitInsert(p) ==
    /\ pc[p] = "commit"
    /\ op[p] = "add"
    /\ \E ok \in BOOLEAN :
          IF ok
          THEN LET r == req[p]
                   id == cur[p].lastrowid
                   row == ExpenseRow(id, r.date, r.amount, r.category,
                                     r.subcategory, r.note)
               IN /\ expenses' = InsertCommitted(expenses, row)
                  /\ sqlite_sequence' = MaxOf({sqlite_sequence, id})
                  /\ everIds' = everIds \cup {id}
                  /\ reused' = (reused \/ id \in everIds)
                  /\ Return(p, r, AddResult(r, id), Snapshot(expenses', deletedIds),
                            "nowhere")
          ELSE /\ Raise(p, IOError)
               /\ UNCHANGED <<expenses, sqlite_sequence, everIds, reused>>
    /\ UNCHANGED <<db_initialized, tableExists, deletedIds, initFailed>>

\* delete_expense: await db.commit(), then the response by cur.rowcount.
CommitDelete(p) ==
    /\ pc[p] = "commit"
    /\ op[p] = "delete"
    /\ \E ok \in BOOLEAN :
          IF ok
          THEN /\ expenses' = DeleteCommitted(expenses, req[p].expense_id)
               /\ deletedIds' = deletedIds \cup {r.id : r \in expenses \ expenses'}
               /\ Return(p, req[p], DeleteResult(req[p], cur[p].rowcount),
                         Snapshot(expenses', deletedIds'), "nowhere")
          ELSE /\ Raise(p, IOError)
               /\ UNCHANGED <<expenses, deletedIds>>
    /\ UNCHANGED <<db_initialized, tableExists, sqlite_sequence, everIds, reused,
                   initFailed>>

\* list_expenses: the tool's connection, the SELECT and fetchall (one read
\* transaction: the rows are those committed when the SELECT runs), the response.
ExecList(p) ==
    /\ pc[p] = "execute"
    /\ op[p] = "list"
    /\ \E ok \in BOOLEAN :
          IF ok /\ tableExists
          THEN \E r \in ListReqs :
                  \E rows \in QueryRange(expenses, r.start_date, r.end_date) :
                      Return(p, r, ListResult(rows), Snapshot(expenses, deletedIds),
                             "nowhere")
          ELSE Raise(p, IF ok THEN NoTableError ELSE IOError)
    /\ UNCHANGED <<db_initialized, store, hist, initFailed>>

\* summarize_expenses: the tool's connection, the grouped SELECT and fetchall, the
\* grand total, the response.
ExecSummarize(p) ==
    /\ pc[p] = "execute"
    /\ op[p] = "summarize"
    /\ \E ok \in BOOLEAN :
          IF ok /\ tableExists
          THEN \E r \in SummarizeReqs :
                  \E summary \in Aggregate(expenses, r.start_date, r.end_date,
                                           r.category) :
                      Return(p, r, SummaryResult(r, summary),
                             Snapshot(expenses, deletedIds), "nowhere")
          ELSE Raise(p, IF ok THEN NoTableError ELSE IOError)
    /\ UNCHANGED <<db_initialized, store, hist, initFailed>>

\* The resource expense:///categories is read.  get_categories is a plain function:
\* it runs from call to return with no await.  IS_CLOUD is fixed when the module is
\* loaded and nothing else of the model reads it; it is drawn here with the file.
GetCategories(p) ==
    /\ pc[p] = "idle"
    /\ \A q \in Procs : q < p => pc[q] # "idle"
    /\ \E cloud \in BOOLEAN, f \in ConfigFiles :
          last' = [call |-> p, op |-> "categories",
                   req |-> [op |-> "categories", cloud |-> cloud, file |-> f],
                   result |-> ResourceResult(get_categories(cloud, f)),
                   snap |-> NoSnap, seen |-> {}, raisedAt |-> "nowhere",
                   afterInitFail |-> FALSE]
    /\ pc' = [pc EXCEPT ![p] = "returned"]
    /\ UNCHANGED <<db_initialized, store, writer, op, req, cur, acks, seen, hist,
                   initFailed, afterInitFail>>

Next ==
    \E p \in Procs :
        \/ \E o \in Ops : Invoke(p, o)
        \/ InitConnect(p)
        \/ InitCreate(p)
        \/ InitCommit(p)
        \/ ExecInsert(p)
        \/ ExecDelete(p)
        \/ Busy(p)
        \/ CommitInsert(p)
        \/ CommitDelete(p)
        \/ ExecList(p)
        \/ ExecSummarize(p)
        \/ GetCategories(p)

Spec == Init /\ [][Next]_vars

\* ================================================================= claims
\* The response returned last is the success envelope.
Served == last.result.status = "success"
\* The response returned last is the success envelope of tool o.
Ran(o) == last.op = o /\ Served

Ids(rows) == {r.id : r \in rows}
InitPcs == {"init_connect", "init_create"}

\* Rows of equal date come in descending order of id.
IdDescOnTies(s) ==
    \A i, j \in 1..Len(s) : (i < j /\ s[i].date = s[j].date) => s[i].id > s[j].id

\* C1: a successful list_expenses(d1, d2) returns exactly the rows of the table whose
\* date lies lexically in [d1, d2], each once, by date descending and, among rows of
\* equal date, by id descending.
C1_ListExactDateDescIdDesc ==
    Ran("list") =>
        LET s == last.result.expenses
            want == {r \in last.snap.rows :
                        Between(r.date, last.req.start_date, last.req.end_date)}
        IN /\ Range(s) = want
           /\ Len(s) = Cardinality(want)
           /\ DateDesc(s)
           /\ IdDescOnTies(s)

\* C2: the id a successful add_expense returns is the id of the row it stored, is
\* greater than the id of every add acknowledged before the call was made, and is
\* never an id the table has held before, whether that row is still there or was
\* deleted.
C2_IdsIncreaseNeverReused ==
    /\ ~reused
    /\ Ran("add") =>
          /\ \A a \in last.seen : a.op = "add" => a.id < last.result.id
          /\ \E r \in last.snap.rows :
                r.id = last.result.id /\ r.date = last.req.date
          /\ last.result.id \notin last.snap.deleted

\* C2's case: an add served after the delete of the row with the highest id was
\* acknowledged.
C2_Witness ==
    /\ Ran("add")
    /\ \E d \in last.seen :
          /\ d.op = "delete"
          /\ \A r \in last.snap.rows : r.id # last.result.id => r.id < d.id
          /\ last.result.id > d.id

\* C3: a list_expenses or summarize_expenses made after an add or a delete was
\* acknowledged reads a table that holds the added row (unless a committed delete has
\* removed it) and does not hold the deleted row, and its response is built from that
\* table: the list holds the added row when its date is in the range and never the
\* deleted one, the summary has one row for each category of the matching rows of
\* that table, with their number as count.
C3_ReadsSeeAcknowledgedMutations ==
    (Served /\ last.op \in {"list", "summarize"}) =>
        LET rows == last.snap.rows
            d1 == last.req.start_date
            d2 == last.req.end_date
        IN /\ \A a \in last.seen :
                 /\ a.op = "add" => (a.id \in Ids(rows) \/ a.id \in last.snap.deleted)
                 /\ a.op = "delete" => a.id \notin Ids(rows)
           /\ last.op = "list" =>
                 LET got == {last.result.expenses[i].id :
                                i \in 1..Len(last.result.expenses)}
                 IN \A a \in last.seen :
                       /\ (a.op = "add" /\ a.id \notin last.snap.deleted
                             /\ Between(a.date, d1, d2)) => a.id \in got
                       /\ a.op = "delete" => a.id \notin got
           /\ last.op = "summarize" =>
                 LET s == last.result.summary
                     c == last.req.category
                     match == {r \in rows : /\ Between(r.date, d1, d2)
                                            /\ Truthy(c) => r.category = c.val}
                 IN /\ \A i, j \in 1..Len(s) : i # j => s[i].category # s[j].category
                    /\ \A i \in 1..Len(s) :
                          s[i].count = Cardinality({r \in match :
                                                      r.category = s[i].category})
                    /\ \A r \in match : \E i \in 1..Len(s) : s[i].category = r.category

\* C3's case: a list returns a row whose add was acknowledged before the list was
\* called.
C3_Witness ==
    /\ Ran("list")
    /\ \E a \in last.seen :
          /\ a.op = "add"
          /\ \E i \in 1..Len(last.result.expenses) : last.result.expenses[i].id = a.id

\* The not-found outcome of delete_expense.
NotFound(id) == [status |-> "error", message |-> <<"Expense not found", id>>]
\* The acknowledgement of a successful delete_expense(id).
DeleteAck(id) == [op |-> "delete", id |-> id, date |-> <<>>]

\* C4: once delete_expense(id) has been acknowledged, no later list_expenses returns
\* the row, and a later delete_expense(id) whose statement and commit run returns
\* the not-found outcome, never success; so does a delete_expense of an id the table
\* never held.
C4_DeletedStaysDeleted ==
    /\ Ran("list") =>
          \A d \in last.seen :
              d.op = "delete" =>
                  \A i \in 1..Len(last.result.expenses) :
                      last.result.expenses[i].id # d.id
    /\ (last.op = "delete" /\ last.raisedAt = "nowhere") =>
          LET id == last.req.expense_id
          IN /\ DeleteAck(id) \in last.seen => last.result = NotFound(id)
             /\ id \notin everIds => last.result = NotFound(id)
             /\ id \notin Ids(last.snap.rows)

\* C4's case: the second delete of an id, made after the first was acknowledged,
\* reports not-found.
C4_Witness ==
    /\ last.op = "delete"
    /\ last.raisedAt = "nowhere"
    /\ DeleteAck(last.req.expense_id) \in last.seen
    /\ last.result = NotFound(last.req.expense_id)

\* C5: with add_expense and delete_expense calls in flight together, no add_expense
\* fails because another mutation is in progress, no id is given twice, and the
\* table holds exactly the rows added and not deleted, each once.
C5_ConcurrentMutationsNeverFail ==
    /\ last.op = "add" =>
          last.result # [status |-> "error", message |-> <<"database is locked">>]
    /\ ~reused
    /\ Ids(expenses) = everIds \ deletedIds
    /\ Cardinality(Ids(expenses)) = Cardinality(expenses)

\* The rows of the sequence l that have category c.
OfCategory(l, c) == {l[i] : i \in {j \in 1..Len(l) : l[j].category = c}}

\* C6: a successful summarize_expenses(d1, d2) without a category has one row for
\* each category among the records list_expenses(d1, d2) returns from the same table,
\* with the sum of their amounts as total and their number as count; its grand total
\* is the sum of those totals, 0 when the summary is empty.
C6_SummaryMatchesList ==
    (Ran("summarize") /\ last.req.category.isNone) =>
        \A l \in QueryRange(last.snap.rows, last.req.start_date, last.req.end_date) :
            LET s == last.result.summary
                cats == {l[i].category : i \in 1..Len(l)}
            IN /\ Len(s) = Cardinality(cats)
               /\ {s[i].category : i \in 1..Len(s)} = cats
               /\ \A i \in 1..Len(s) :
                     /\ s[i].total = SumAmount(OfCategory(l, s[i].category))
                     /\ s[i].count = Cardinality(OfCategory(l, s[i].category))
               /\ last.result.total = SumAmount(Range(l))
               /\ (s = <<>> => last.result.total = 0)

\* C6's case: a summary of two categories, one of them with two records.
C6_Witness ==
    /\ Ran("summarize")
    /\ last.req.category.isNone
    /\ Len(last.result.summary) = 2
    /\ \E i \in 1..2 : last.result.summary[i].count = 2

\* C7: a successful summarize_expenses(d1, d2, category=C), for every string C, the
\* empty one included, returns at most one row, of category C, and no row when no
\* record of category C lies in the range.
C7_CategoryFilterOneRow ==
    (Ran("summarize") /\ ~last.req.category.isNone) =>
        LET s == last.result.summary
            C == last.req.category.val
            match == {r \in last.snap.rows :
                        /\ Between(r.date, last.req.start_date, last.req.end_date)
                        /\ r.category = C}
        IN /\ Len(s) <= 1
           /\ \A i \in 1..Len(s) : s[i].category = C
           /\ (match = {} => s = <<>>)

\* C8: every call of a tool ends with an envelope whose status is success or error; a call in
\* which ensure_db or a storage step raised ends with the error envelope and a
\* message, and leaves no lock behind, so the calls after it are served.
C8_EveryCallReturnsEnvelope ==
    /\ last.op \in Ops =>
          /\ last.result.status \in {"success", "error"}
          /\ last.raisedAt # "nowhere" =>
                (last.result.status = "error" /\ Len(last.result.message) > 0)
    /\ \A p \in Procs : pc[p] \in {"idle", "returned"} => writer # p

\* C8's case: the commit of an add failed; the call has its error envelope, the row
\* is not in the table and the lock is free for the delete that waits.
C8_Witness ==
    /\ last.op = "add"
    /\ last.raisedAt = "commit"
    /\ last.result.status = "error"
    /\ writer = 0
    /\ \E q \in Procs : pc[q] = "execute" /\ op[q] = "delete"

\* What the tool returns when ensure_db failed on a storage fault.
InitFailedEnvelope ==
    [status |-> "error",
     message |-> <<"Database initialization failed", "disk I/O error">>]

\* C9: a step of ensure_db, also when another call has created the table since this
\* one read the flag, changes no row and no id counter and never removes the table;
\* its CREATE TABLE ends with the table in place, and raises only when the storage
\* fails, never because the table exists.
C9_InitIdempotent ==
    [][\A p \in Procs :
          (pc[p] \in {"init_connect", "init_create", "init_commit"} /\ pc'[p] # pc[p]) =>
              /\ expenses' = expenses
              /\ sqlite_sequence' = sqlite_sequence
              /\ (tableExists => tableExists')
              /\ pc[p] = "init_create" =>
                    \/ (pc'[p] = "init_commit" /\ tableExists')
                    \/ (pc'[p] = "returned" /\ last'.call = p
                          /\ last'.result = InitFailedEnvelope)]_vars

\* C9's case: two calls both read the flag as not set and have both run CREATE TABLE
\* on a table that held rows.
C9_Witness ==
    /\ \E p, q \in Procs : p # q /\ pc[p] = "init_commit" /\ pc[q] = "init_commit"
    /\ ~db_initialized
    /\ expenses # {}

\* C10: once ensure_db has failed no call made afterwards is served, and the call it
\* failed in does not end with the ordinary error envelope.
C10_InitFailureIsFatal ==
    /\ Served => ~last.afterInitFail
    /\ last.raisedAt \in InitPcs => last.result.status # "error"

\* C10 as amended: a failure of ensure_db ends the call it happened in with the
\* ordinary error envelope, its message starting "Database initialization failed";
\* a call made afterwards runs ensure_db again and gets past it, and is served, only
\* with the flag set and the table in place.
C10_InitFailureIsPerRequest ==
    /\ last.raisedAt \in InitPcs =>
          /\ last.result.status = "error"
          /\ Head(last.result.message) = "Database initialization failed"
    /\ (last.afterInitFail /\ Served) => (db_initialized /\ tableExists)
    /\ \A p \in Procs :
          (afterInitFail[p] /\ pc[p] \in {"execute", "commit"}) =>
              (db_initialized /\ tableExists)

\* C10's case: a call made after ensure_db had failed is served.
C10_Witness == Served /\ last.afterInitFail

\* C11: get_categories returns, whatever the configuration file is (not there,
\* there with a valid document, unreadable, malformed), the text of a JSON object
\* with a categories array; when the file is not there or cannot be read, the
\* array is the ten built-in labels in their order.
C11_CategoriesAlwaysWellFormed ==
    last.op = "categories" =>
        LET doc == JsonLoads(last.result.text)
            f == last.req.file
        IN /\ doc.ok
           /\ (~f.exists \/ ~f.readable) =>
                 (doc.categories = DEFAULT_CATEGORIES.categories
                    /\ Len(doc.categories) = 10)

\* C12: an add_expense whose date or category is missing (empty) is not served: it
\* returns the error envelope, and no INSERT of it was committed.
C12_AddRejectsMissingArguments ==
    (last.op = "add" /\ last.req # NoReq
        /\ (last.req.date = <<>> \/ last.req.category = "")) =>
            /\ last.result.status = "error"
            /\ last.snap = NoSnap

\* The characters of a category name, as codes.
CategoryCodes(c) == IF c = "" THEN <<>> ELSE <<65>>

\* Rows of equal total come by category name ascending.
CategoryAscOnTies(s) ==
    \A i, j \in 1..Len(s) :
        (i < j /\ s[i].total = s[j].total) =>
            LexLeq(CategoryCodes(s[i].category), CategoryCodes(s[j].category))

\* C13: the rows of a successful summarize_expenses are ordered by total descending
\* and, among rows of equal total, by category name ascending, so that the same
\* table and arguments always give the same sequence.
C13_SummaryTotalDescCategoryAsc ==
    Ran("summarize") =>
        /\ TotalDesc(last.result.summary)
        /\ CategoryAscOnTies(last.result.summary)
        /\ \A s \in Aggregate(last.snap.rows, last.req.start_date, last.req.end_date,
                              last.req.category) : s = last.result.summary

\* C14: a list_expenses whose SELECT ran returns success with count equal to the
\* number of records in the response; when no row lies in the range, as when
\* start_date is lexically greater than end_date, count is 0 and the sequence empty.
C14_ListCountAndEmptyRange ==
    (last.op = "list" /\ last.raisedAt = "nowhere") =>
        LET d1 == last.req.start_date
            d2 == last.req.end_date
        IN /\ Served
           /\ last.result.count = Len(last.result.expenses)
           /\ InRange(last.snap.rows, d1, d2) = {} =>
                 (last.result.count = 0 /\ last.result.expenses = <<>>)
           /\ ~LexLeq(d1, d2) =>
                 (last.result.count = 0 /\ last.result.expenses = <<>>)

\* C14's case: a list over a range that runs backwards, of a table that holds rows,
\* is served with count 0 and no record.
C14_Witness ==
    /\ Ran("list")
    /\ ~LexLeq(last.req.start_date, last.req.end_date)
    /\ last.snap.rows # {}
    /\ last.result.count = 0
    /\ last.result.expenses = <<>>

\* C15: the rows of the table change only by insertion and deletion.  No step
\* alters a field of a row that stays.  The step in which list_expenses,
\* summarize_expenses, get_categories, or a delete_expense or add_expense that is not
\* served returns leaves the table as it was; so does every step that is not a
\* return.  The step in which add_expense returns success adds the one row of the
\* returned id and keeps every other row; the step in which delete_expense(id)
\* returns success removes the one row of that id and keeps every other row.
C15_RowsChangeOnlyByInsertAndDelete ==
    [][/\ \A r \in expenses' : r.id \in Ids(expenses) => r \in expenses
       /\ (\A p \in Procs : ~(pc[p] # "returned" /\ pc'[p] = "returned")) =>
             expenses' = expenses
       /\ \A p \in Procs :
             (pc[p] # "returned" /\ pc'[p] = "returned") =>
                 /\ last'.call = p
                 /\ last'.op \in {"list", "summarize", "categories"} =>
                       expenses' = expenses
                 /\ last'.result.status # "success" => expenses' = expenses
                 /\ (last'.op = "add" /\ last'.result.status = "success") =>
                       /\ expenses \subseteq expenses'
                       /\ Cardinality(expenses' \ expenses) = 1
                       /\ Ids(expenses' \ expenses) = {last'.result.id}
                 /\ (last'.op = "delete" /\ last'.result.status = "success") =>
                       /\ expenses' \subseteq expenses
                       /\ Cardinality(expenses \ expenses') = 1
                       /\ Ids(expenses \ expenses') = {last'.req.expense_id}]_vars

\* C15's case: a delete_expense was served and the other row is still in the table.
C15_Witness ==
    /\ Ran("delete")
    /\ last.req.expense_id \in last.snap.deleted
    /\ last.snap.rows # {}
    /\ expenses = last.snap.rows

\* C16: of two delete_expense calls for the same existing id that are in flight
\* together, the one that returns while the other has run its DELETE of the row and
\* not yet committed gets, unless its own commit fails, the deleted or the not-found
\* outcome; and a served delete means the row is gone and stays gone.
C16_ConcurrentDeletesOneWins ==
    /\ \A q \in Procs :
          (/\ last.op = "delete"
           /\ last.req # NoReq
           /\ last.raisedAt # "commit"
           /\ last.call # q
           /\ op[q] = "delete"
           /\ pc[q] = "commit"
           /\ cur[q].rowcount = 1
           /\ req[q].expense_id = last.req.expense_id) =>
              last.result \in {DeleteResult(last.req, 1), DeleteResult(last.req, 0)}
    /\ Ran("delete") =>
          /\ last.req.expense_id \in deletedIds
          /\ last.req.expense_id \notin Ids(expenses)

\* C17: the flag _db_initialized is set only with the expenses table in place, and
\* only by the step of ensure_db that follows its CREATE TABLE and commit; once set
\* it is never cleared; the step in which ensure_db raises leaves the flag as it
\* was, and a tool called while the flag is not set runs ensure_db's
\* initialisation.
C17_FlagOnlyAfterCommittedCreate ==
    /\ [](db_initialized => tableExists)
    /\ [][/\ db_initialized => db_initialized'
          /\ (~db_initialized /\ db_initialized') =>
                \E p \in Procs :
                    pc[p] = "init_commit" /\ pc'[p] = "execute" /\ tableExists
          /\ \A p \in Procs :
                /\ (pc[p] \in InitPcs /\ pc'[p] = "returned") =>
                      db_initialized' = db_initialized
                /\ (pc[p] = "idle" /\ pc'[p] \notin {"idle", "returned"}
                      /\ ~db_initialized) => pc'[p] = "init_connect"]_vars

\* C17's case: ensure_db has raised, the flag is not set, and a tool called after
\* that is in ensure_db's initialisation again.
C17_Witness ==
    /\ initFailed
    /\ ~db_initialized
    /\ \E p \in Procs : afterInitFail[p] /\ pc[p] \in InitPcs

====
